---- MODULE Spec2Model ----
(***************************************************************************)
(* Model of server.js: the posts table, the uploads directory and the      *)
(* /api/posts routes.  A POST or PUT request runs in two steps: the multer *)
(* middleware upload.single('image') parses the multipart body and stores  *)
(* the file (asynchronous I/O, other requests run meanwhile), then the     *)
(* route handler runs to completion (better-sqlite3 and the fs *Sync calls *)
(* are synchronous, so a handler body is one atomic step of the event      *)
(* loop).  GET and DELETE have no upload middleware and are one step.      *)
(***************************************************************************)
EXTENDS Integers, Sequences, FiniteSets, Bags, TLC

VARIABLES
    posts,      \* the posts table: live id -> row
    seq,        \* sqlite_sequence of posts: the last id AUTOINCREMENT assigned
    files,      \* the file names in the uploads directory
    uploads,    \* number of different suffixes storage.filename has generated
    now,        \* CURRENT_TIMESTAMP, in seconds (Spec leaves it alone)
    pending,    \* bag of requests whose upload is done and whose handler is due
    res,        \* the response of the last step
    last,       \* what the last step was
    allOk,      \* every create, update and delete so far answered 201 / 200
    subscribers \* the subscribers table, in rowid order

vars == <<posts, seq, files, uploads, now, pending, res, last, allOk, subscribers>>

----------------------------------------------------------------------------
(* Bounds of the exploration *)

MaxPosts == 2       \* rows ever inserted; ids range over 1..MaxPosts
MaxUploads == 2     \* files ever written by multer
MaxPending == 1     \* requests between their upload and their handler
MaxClock == 1       \* seconds the clock runs for (where it runs)
MaxSubscribers == 3 \* rows ever inserted into subscribers

----------------------------------------------------------------------------
(* Values *)

Undefined == "undefined"   \* a text field absent from req.body
NoDate == 0                \* post_date absent from req.body
NoFile == <<>>             \* req.file undefined
NoPath == <<>>             \* image_path NULL
NoRow == <<>>              \* a response body that is not a post row

Ids == 1..MaxPosts

\* the multipart text fields of a request (req.body): a complete one and one
\* without title; post_date is a day number, so that the TEXT comparison of
\* ISO dates is the comparison of the numbers
Bodies ==
    { [title |-> "t", excerpt |-> "e", content |-> "c", post_date |-> 1],
      [title |-> Undefined, excerpt |-> "e", content |-> "c", post_date |-> 1] }

\* the body recorded for a step that reads none
NoBody == [title |-> Undefined, excerpt |-> Undefined, content |-> Undefined,
           post_date |-> NoDate]

\* the strings the file filter reads, as sequences of characters
DotPNG == <<".", "P", "N", "G">>
DotTxt == <<".", "t", "x", "t">>
ImagePng == <<"i", "m", "a", "g", "e", "/", "p", "n", "g">>
TextPlain == <<"t", "e", "x", "t", "/", "p", "l", "a", "i", "n">>

\* the file part of a request (ext is path.extname(file.originalname), mime is
\* file.mimetype): none, an image (its extension in capitals), a text file,
\* and an oversized image
NoUpload == [present |-> FALSE, ext |-> <<>>, mime |-> <<>>, big |-> FALSE]
Uploads ==
    { NoUpload,
      [present |-> TRUE, ext |-> DotPNG, mime |-> ImagePng, big |-> FALSE],
      [present |-> TRUE, ext |-> DotTxt, mime |-> TextPlain, big |-> FALSE],
      [present |-> TRUE, ext |-> DotPNG, mime |-> ImagePng, big |-> TRUE] }

\* req.body.keep_image
KeepValues == { Undefined, "false", "true" }

----------------------------------------------------------------------------
(* Image store: multer configuration *)

\* the word w occurs somewhere in the string s
contains(s, w) ==
    \E k \in 1..(Len(s) - Len(w) + 1) : \A i \in 1..Len(w) : s[k + i - 1] = w[i]

\* String.prototype.toLowerCase on the letters A-Z
lowerCase ==
    ("A" :> "a") @@ ("B" :> "b") @@ ("C" :> "c") @@ ("D" :> "d") @@ ("E" :> "e") @@
    ("F" :> "f") @@ ("G" :> "g") @@ ("H" :> "h") @@ ("I" :> "i") @@ ("J" :> "j") @@
    ("K" :> "k") @@ ("L" :> "l") @@ ("M" :> "m") @@ ("N" :> "n") @@ ("O" :> "o") @@
    ("P" :> "p") @@ ("Q" :> "q") @@ ("R" :> "r") @@ ("S" :> "s") @@ ("T" :> "t") @@
    ("U" :> "u") @@ ("V" :> "v") @@ ("W" :> "w") @@ ("X" :> "x") @@ ("Y" :> "y") @@
    ("Z" :> "z")

capitals == DOMAIN lowerCase

toLowerCase(s) ==
    [k \in 1..Len(s) |-> IF s[k] \in capitals THEN lowerCase[s[k]] ELSE s[k]]

\* the alternatives of the pattern /jpeg|jpg|png|gif|webp/
allowedWords ==
    { <<"j", "p", "e", "g">>, <<"j", "p", "g">>, <<"p", "n", "g">>,
      <<"g", "i", "f">>, <<"w", "e", "b", "p">> }

\* allowedTypes.test(s): the pattern is not anchored, so s passes when one
\* of the five words occurs anywhere in it
allowedTypes(s) == \E w \in allowedWords : contains(s, w)

\* fileFilter: the lower-cased extension and the mimetype (as sent) must
\* both pass
fileFilter(file) == allowedTypes(toLowerCase(file.ext)) /\ allowedTypes(file.mime)

\* limits.fileSize: the payload is within 50 MiB
limits(file) == ~file.big

\* a name generator that hands out one name again and again
filenameReused(tok, file) == <<1, file.ext>>

\* storage.filename: uniqueSuffix + extname, the extension as sent; tok is
\* the suffix, built from Date.now() and Math.random(), which may repeat
filename(tok, file) == <<tok, file.ext>>

\* `/uploads/${req.file.filename}`
imagePath(fname) == <<"/uploads/">> \o fname

\* path.join(__dirname, image_path): the file of the uploads directory
oldImagePath(path) == Tail(path)

\* fs.existsSync
existsSync(fname, dir) == fname \in dir

\* multer.diskStorage: the accepted file is written to the uploads directory
diskStorage(dir, fname) == dir \cup {fname}

\* upload.single('image') on the route op: the accepted file is stored
single(dir, op, file, fname) ==
    IF file.present THEN diskStorage(dir, fname) ELSE dir

\* fs.unlinkSync
unlinkSync(dir, fname) == dir \ {fname}

----------------------------------------------------------------------------
(* Posts table *)

\* CREATE TABLE IF NOT EXISTS posts: no row
EmptyTable == [i \in {} |-> 0]

\* the NOT NULL columns: binding an absent field raises an error
notNull(body) ==
    /\ body.title # Undefined
    /\ body.excerpt # Undefined
    /\ body.content # Undefined
    /\ body.post_date # NoDate

\* SELECT * FROM posts WHERE id = ?
selectPost(table, id) == IF id \in DOMAIN table THEN <<table[id]>> ELSE NoRow

\* an INSERT whose values are bound in the wrong order: excerpt and content
\* change places
insertPostSwapped(table, id, body, path, t) ==
    [i \in DOMAIN table \cup {id} |->
        IF i = id
        THEN [id |-> id, title |-> body.title, excerpt |-> body.content,
              content |-> body.excerpt, image_path |-> path,
              post_date |-> body.post_date, created_at |-> t, updated_at |-> t]
        ELSE table[i]]

\* an INSERT that leaves image_path out of the column list
insertPostNoImage(table, id, body, path, t) ==
    [i \in DOMAIN table \cup {id} |->
        IF i = id
        THEN [id |-> id, title |-> body.title, excerpt |-> body.excerpt,
              content |-> body.content, image_path |-> NoPath,
              post_date |-> body.post_date, created_at |-> t, updated_at |-> t]
        ELSE table[i]]

\* INSERT INTO posts (...) VALUES (...): a new row under a new id
insertPost(table, id, body, path, t) ==
    [i \in DOMAIN table \cup {id} |->
        IF i = id
        THEN [id |-> id, title |-> body.title, excerpt |-> body.excerpt,
              content |-> body.content, image_path |-> path,
              post_date |-> body.post_date, created_at |-> t, updated_at |-> t]
        ELSE table[i]]

\* an UPDATE without updated_at = CURRENT_TIMESTAMP
updatePostNoTouch(table, id, body, path, t) ==
    [table EXCEPT ![id] =
        [@ EXCEPT !.title = body.title, !.excerpt = body.excerpt,
                  !.content = body.content, !.image_path = path,
                  !.post_date = body.post_date]]

\* UPDATE posts SET ... WHERE id = ?
updatePost(table, id, body, path, t) ==
    [table EXCEPT ![id] =
        [@ EXCEPT !.title = body.title, !.excerpt = body.excerpt,
                  !.content = body.content, !.image_path = path,
                  !.post_date = body.post_date, !.updated_at = t]]

\* a DELETE whose WHERE clause matches no row
deletePostNoRow(table, id) == table

\* DELETE FROM posts WHERE id = ?
deletePost(table, id) == [i \in DOMAIN table \ {id} |-> table[i]]

\* res.status(...).json(...)
Respond(status, body) == [status |-> status, body |-> body]

----------------------------------------------------------------------------
(* Route handlers as functions of the table, the uploads directory and the  *)
(* request: the table and directory they leave, the response, the           *)
(* image_path they read (old), whether fs.unlinkSync was called and whether *)
(* the try block threw                                                      *)

Outcome(table, dir, response, old, called, threw) ==
    [posts |-> table, files |-> dir, res |-> response, old |-> old,
     called |-> called, threw |-> threw]

\* keep_image never read: a PUT without a file keeps the image
nextImagePathIgnoresKeep(file, keep, old) ==
    IF file # NoFile THEN imagePath(file) ELSE old

\* keep_image compared with 'true': anything else removes the image
nextImagePathUnlessTrue(file, keep, old) ==
    IF file # NoFile THEN imagePath(file)
    ELSE IF keep # "true" THEN NoPath
    ELSE old

\* PUT: the image_path written by the UPDATE (imagePath of lines 136-157)
nextImagePath(file, keep, old) ==
    IF file # NoFile THEN imagePath(file)
    ELSE IF keep = "false" THEN NoPath
    ELSE old

\* app.get('/api/posts/:id')
getPost(table, id) ==
    LET post == selectPost(table, id)
    IN  IF post = NoRow THEN Respond(404, NoRow) ELSE Respond(200, post)

\* a plain INTEGER PRIMARY KEY: the id after the largest live rowid
nextIdMaxRowid(table, s) ==
    IF DOMAIN table = {} THEN 1
    ELSE (CHOOSE i \in DOMAIN table : \A j \in DOMAIN table : j <= i) + 1

\* INTEGER PRIMARY KEY AUTOINCREMENT: the id after the largest ever assigned
\* (sqlite_sequence)
nextId(table, s) == s + 1

\* app.post('/api/posts') handler body; id is the next AUTOINCREMENT value
createPost(table, id, file, body, t) ==
    LET path == IF file # NoFile THEN imagePath(file) ELSE NoPath
    IN  IF notNull(body)
        THEN LET inserted == insertPost(table, id, body, path, t)
             IN  Respond(201, selectPost(inserted, id))
        ELSE Respond(500, NoRow)

\* a PUT handler that runs the UPDATE before it removes the old file
putPostUpdatesFirst(table, dir, id, file, body, keep, unlinkFails, t) ==
    LET currentPost == selectPost(table, id)
    IN  IF currentPost = NoRow
        THEN Outcome(table, dir, Respond(404, NoRow), NoPath, FALSE, FALSE)
        ELSE LET old == currentPost[1].image_path
                 called == /\ (file # NoFile \/ keep = "false")
                           /\ old # NoPath
                           /\ existsSync(oldImagePath(old), dir)
                 dir1 == IF called THEN unlinkSync(dir, oldImagePath(old)) ELSE dir
                 updated == updatePost(table, id, body, nextImagePath(file, keep, old), t)
             IN  IF ~notNull(body)
                 THEN Outcome(table, dir, Respond(500, NoRow), old, FALSE, TRUE)
                 ELSE IF called /\ unlinkFails
                 THEN Outcome(updated, dir, Respond(500, NoRow), old, TRUE, TRUE)
                 ELSE Outcome(updated, dir1, Respond(200, selectPost(updated, id)),
                              old, called, FALSE)

\* app.put('/api/posts/:id') handler body; unlinkFails: fs.unlinkSync throws
\* (a storage error) if it is called
putPost(table, dir, id, file, body, keep, unlinkFails, t) ==
    LET currentPost == selectPost(table, id)
    IN  IF currentPost = NoRow
        THEN Outcome(table, dir, Respond(404, NoRow), NoPath, FALSE, FALSE)
        ELSE LET old == currentPost[1].image_path
                 called == /\ (file # NoFile \/ keep = "false")
                           /\ old # NoPath
                           /\ existsSync(oldImagePath(old), dir)
                 dir1 == IF called THEN unlinkSync(dir, oldImagePath(old)) ELSE dir
                 updated == updatePost(table, id, body, nextImagePath(file, keep, old), t)
             IN  IF called /\ unlinkFails
                 THEN Outcome(table, dir, Respond(500, NoRow), old, TRUE, TRUE)
                 ELSE IF ~notNull(body)
                 THEN Outcome(table, dir1, Respond(500, NoRow), old, called, TRUE)
                 ELSE Outcome(updated, dir1, Respond(200, selectPost(updated, id)),
                              old, called, FALSE)

\* a DELETE route whose unlink failure is swallowed: the row goes anyway
removePostAnyway(table, dir, id, unlinkFails) ==
    LET post == selectPost(table, id)
    IN  IF post = NoRow
        THEN Outcome(table, dir, Respond(404, NoRow), NoPath, FALSE, FALSE)
        ELSE LET old == post[1].image_path
                 called == old # NoPath /\ existsSync(oldImagePath(old), dir)
             IN  IF called /\ unlinkFails
                 THEN Outcome(deletePost(table, id), dir, Respond(200, NoRow),
                              old, TRUE, TRUE)
                 ELSE Outcome(deletePost(table, id),
                              IF called THEN unlinkSync(dir, oldImagePath(old)) ELSE dir,
                              Respond(200, NoRow), old, called, FALSE)

\* a DELETE route without the fs.existsSync guard: unlinkSync of a missing
\* file throws ENOENT and the catch answers 500
removePostUnguarded(table, dir, id, unlinkFails) ==
    LET post == selectPost(table, id)
    IN  IF post = NoRow
        THEN Outcome(table, dir, Respond(404, NoRow), NoPath, FALSE, FALSE)
        ELSE LET old == post[1].image_path
                 called == old # NoPath
             IN  IF called /\ (unlinkFails \/ ~existsSync(oldImagePath(old), dir))
                 THEN Outcome(table, dir, Respond(500, NoRow), old, TRUE, TRUE)
                 ELSE Outcome(deletePost(table, id),
                              IF called THEN unlinkSync(dir, oldImagePath(old)) ELSE dir,
                              Respond(200, NoRow), old, called, FALSE)

\* app.delete('/api/posts/:id')
removePost(table, dir, id, unlinkFails) ==
    LET post == selectPost(table, id)
    IN  IF post = NoRow
        THEN Outcome(table, dir, Respond(404, NoRow), NoPath, FALSE, FALSE)
        ELSE LET old == post[1].image_path
                 called == old # NoPath /\ existsSync(oldImagePath(old), dir)
             IN  IF called /\ unlinkFails
                 THEN Outcome(table, dir, Respond(500, NoRow), old, TRUE, TRUE)
                 ELSE Outcome(deletePost(table, id),
                              IF called THEN unlinkSync(dir, oldImagePath(old)) ELSE dir,
                              Respond(200, NoRow), old, called, FALSE)

----------------------------------------------------------------------------
(* Requests in flight and the record of the last step *)

\* a request between upload.single('image') and its handler: the route,
\* req.params.id and req.file.filename; live records whether the row it
\* addresses existed when the request arrived.  req.body is carried unread
\* from the upload to the handler, so it is drawn where the handler reads it.
Request(op, id, file, live) == [op |-> op, id |-> id, file |-> file, live |-> live]

\* the step just taken: the route, the id, req.file, keep_image, the
\* image_path the handler read (currentPost.image_path), whether it threw,
\* the req.body the handler read, whether fs.unlinkSync was called, and
\* whether the request ended in the upload middleware or in the handler
Done(op, id, file, keep, old, threw, body, called, stage) ==
    [op |-> op, id |-> id, file |-> file, keep |-> keep, old |-> old, threw |-> threw,
     body |-> body, called |-> called, stage |-> stage]

Waiting == BagToSet(pending)

PendingCreates == LET c == { r \in Waiting : r.op = "create" }
                  IN  IF c = {} THEN 0 ELSE BagCardinality([r \in c |-> pending[r]])

PendingFiles == { r.file : r \in { q \in Waiting : q.file # NoFile } }

Take(r) == pending (-) SetToBag({r})

Ok(status) == status \in {200, 201}

\* the suffixes of the names in use: of the files on disk, of the image
\* paths of the rows and of the uploads of the waiting requests
InUse ==
    { f[1] : f \in files \cup PendingFiles }
        \cup { posts[i].image_path[2] : i \in { j \in DOMAIN posts : posts[j].image_path # NoPath } }

\* the files named by the image paths of the live rows
Referenced == { oldImagePath(posts[i].image_path) :
                    i \in { j \in DOMAIN posts : posts[j].image_path # NoPath } }

TypeOK ==
    /\ seq \in 0..MaxPosts
    /\ DOMAIN posts \subseteq 1..seq
    /\ uploads \in 0..MaxUploads
    /\ BagCardinality(pending) <= MaxPending
    /\ allOk \in BOOLEAN

----------------------------------------------------------------------------
Init ==
    /\ posts = EmptyTable
    /\ seq = 0
    /\ files = {}
    /\ uploads = 0
    /\ now = 0
    /\ pending = EmptyBag
    /\ res = Respond(0, NoRow)
    /\ last = Done("init", 0, NoFile, Undefined, NoPath, FALSE, NoBody, FALSE, "init")
    /\ allOk = TRUE
    /\ subscribers = <<>>

\* an upload step whose rejection of a POST still lets a row without image in
MulterRowAnyway(op, id, file, tok) ==
    /\ BagCardinality(pending) < MaxPending
    /\ op = "create" => id = 0 /\ seq + PendingCreates < MaxPosts
    /\ op = "update" => id \in Ids
    /\ tok = 0 \/ (file.present /\ tok <= MaxUploads /\ tok \in InUse \cup {uploads + 1})
    /\ \E passes \in {file.present /\ fileFilter(file)} :
        /\ passes = (tok # 0)
        /\ uploads' = IF tok > uploads THEN tok ELSE uploads
        /\ IF file.present /\ ~(passes /\ limits(file))
           THEN /\ res' = Respond(500, NoRow)
                /\ last' = Done(op, 0, NoFile, Undefined, NoPath, TRUE, NoBody, FALSE,
                                "multer")
                /\ allOk' = FALSE
                /\ files' = IF passes
                            THEN unlinkSync(diskStorage(files, filename(tok, file)),
                                            filename(tok, file))
                            ELSE files
                /\ IF op = "create"
                   THEN /\ posts' = insertPost(posts, nextId(posts, seq),
                                               CHOOSE b \in Bodies : notNull(b), NoPath, now)
                        /\ seq' = nextId(posts, seq)
                   ELSE UNCHANGED <<posts, seq>>
                /\ UNCHANGED pending
           ELSE /\ LET fname == IF file.present THEN filename(tok, file) ELSE NoFile
                   IN  /\ files' = single(files, op, file, fname)
                       /\ pending' = pending (+) SetToBag({Request(op, id, fname,
                                                                   id \in DOMAIN posts)})
                       /\ last' = Done("upload", 0, NoFile, Undefined, NoPath, FALSE,
                                       NoBody, FALSE, "multer")
                /\ res' = Respond(0, NoRow)
                /\ UNCHANGED <<posts, seq, allOk>>
    /\ UNCHANGED <<now, subscribers>>

\* upload.single('image') in front of POST /api/posts and PUT /api/posts/:id.
\* A file the filter refuses is never written.  A file that passes the filter
\* is written under the name storage.filename gives it, over a file of that
\* name if there is one: tok is the suffix of a name in use or the next new
\* one (a repeated suffix that names nothing any more acts as a new one).
\* An oversized file is removed again under that name.  A refused or
\* oversized file ends the request with 500 (express's error handler); an
\* accepted one is on disk before the handler runs
Multer(op, id, file, tok) ==
    /\ BagCardinality(pending) < MaxPending
    /\ op = "create" => id = 0 /\ seq + PendingCreates < MaxPosts
    /\ op = "update" => id \in Ids
    /\ tok = 0 \/ (file.present /\ tok <= MaxUploads /\ tok \in InUse \cup {uploads + 1})
    /\ \E passes \in {file.present /\ fileFilter(file)} :
        /\ passes = (tok # 0)
        /\ uploads' = IF tok > uploads THEN tok ELSE uploads
        /\ IF file.present /\ ~(passes /\ limits(file))
           THEN /\ res' = Respond(500, NoRow)
                /\ last' = Done(op, 0, NoFile, Undefined, NoPath, TRUE, NoBody, FALSE,
                                "multer")
                /\ allOk' = FALSE
                /\ files' = IF passes
                            THEN unlinkSync(diskStorage(files, filename(tok, file)),
                                            filename(tok, file))
                            ELSE files
                /\ UNCHANGED <<posts, seq, pending>>
           ELSE /\ LET fname == IF file.present THEN filename(tok, file) ELSE NoFile
                   IN  /\ files' = single(files, op, file, fname)
                       /\ pending' = pending (+) SetToBag({Request(op, id, fname,
                                                                   id \in DOMAIN posts)})
                       /\ last' = Done("upload", 0, NoFile, Undefined, NoPath, FALSE,
                                       NoBody, FALSE, "multer")
                /\ res' = Respond(0, NoRow)
                /\ UNCHANGED <<posts, seq, allOk>>
    /\ UNCHANGED <<now, subscribers>>

\* POST /api/posts: the handler runs on a request whose upload is done
PostHandler(r, body) ==
    \E id \in {nextId(posts, seq)} :
    \E response \in {createPost(posts, id, r.file, body, now)} :
        /\ r.op = "create"
        /\ pending' = Take(r)
        /\ res' = response
        /\ IF response.status = 201
           THEN /\ posts' = insertPost(posts, id, body,
                                       response.body[1].image_path, now)
                /\ seq' = id
                /\ last' = Done("create", id, r.file, Undefined, NoPath, FALSE,
                                body, FALSE, "handler")
                /\ UNCHANGED allOk
           ELSE /\ last' = Done("create", 0, r.file, Undefined, NoPath, TRUE,
                                body, FALSE, "handler")
                /\ allOk' = FALSE
                /\ UNCHANGED <<posts, seq>>
        /\ UNCHANGED <<files, uploads, now, subscribers>>

\* PUT /api/posts/:id: the handler runs on a request whose upload is done;
\* keep_image is read only when there is no file
PutHandler(r, body, keep, unlinkFails) ==
    /\ r.op = "update"
    /\ r.file # NoFile => keep = Undefined
    /\ \E out \in {putPost(posts, files, r.id, r.file, body, keep, unlinkFails, now)} :
        /\ unlinkFails => out.called
        /\ pending' = Take(r)
        /\ posts' = out.posts
        /\ files' = out.files
        /\ res' = out.res
        /\ last' = Done("update", r.id, r.file, keep, out.old, out.threw,
                        body, out.called, "handler")
        /\ allOk' = (allOk /\ Ok(out.res.status))
        /\ UNCHANGED <<seq, uploads, now, subscribers>>

\* DELETE /api/posts/:id
DeleteHandler(id, unlinkFails) ==
    \E out \in {removePost(posts, files, id, unlinkFails)} :
        /\ unlinkFails => out.called
        /\ posts' = out.posts
        /\ files' = out.files
        /\ res' = out.res
        /\ last' = Done("delete", id, NoFile, Undefined, out.old, out.threw,
                        NoBody, out.called, "handler")
        /\ allOk' = (allOk /\ Ok(out.res.status))
        /\ UNCHANGED <<seq, uploads, now, pending, subscribers>>

\* GET /api/posts/:id
GetHandler(id) ==
    /\ res' = getPost(posts, id)
    /\ last' = Done("get", id, NoFile, Undefined, NoPath, FALSE, NoBody, FALSE, "handler")
    /\ UNCHANGED <<posts, seq, files, uploads, now, pending, allOk, subscribers>>

Arrive == \E op \in {"create", "update"}, id \in {0} \cup Ids, file \in Uploads,
             tok \in 0..MaxUploads :
              Multer(op, id, file, tok)

Create == \E r \in Waiting, body \in Bodies : PostHandler(r, body)

Update == \E r \in Waiting, body \in Bodies, keep \in KeepValues, unlinkFails \in BOOLEAN :
              PutHandler(r, body, keep, unlinkFails)

Delete == \E id \in Ids, unlinkFails \in BOOLEAN : DeleteHandler(id, unlinkFails)

Get == \E id \in Ids : GetHandler(id)

Next == Arrive \/ Create \/ Update \/ Delete \/ Get

Spec == Init /\ [][Next]_vars

\* uploads whose generated suffix never repeats: each is the next new one
ArriveUnique ==
    \E op \in {"create", "update"}, id \in {0} \cup Ids, file \in Uploads,
       tok \in {0, uploads + 1} :
        Multer(op, id, file, tok)

UniqueNext == ArriveUnique \/ Create \/ Update \/ Delete \/ Get

\* the routes when Date.now() and Math.random() never give one suffix twice
UniqueSpec == Init /\ [][UniqueNext]_vars

----------------------------------------------------------------------------
(* The clock and the newsletter routes *)

\* CURRENT_TIMESTAMP moves on by a second
Tick ==
    /\ now < MaxClock
    /\ now' = now + 1
    /\ res' = Respond(0, NoRow)
    /\ last' = Done("tick", 0, NoFile, Undefined, NoPath, FALSE, NoBody, FALSE, "clock")
    /\ UNCHANGED <<posts, seq, files, uploads, pending, allOk, subscribers>>

\* a JSON value of req.body.email that is not an array: its type and its text
\* (for a number, the text SQLite stores in a TEXT column)
Json(kind, text) == [kind |-> kind, text |-> text, items |-> <<>>]

\* a JSON array of req.body.email: its elements
JsonArray(items) == [kind |-> "array", text |-> "", items |-> items]

\* req.body.email of a subscribe request: absent, empty, two addresses, one
\* that differs from another in case only, true, an object, an array with
\* one address and an array with two
Emails ==
    { Json("undefined", ""), Json("string", ""),
      Json("string", "a@x.org"), Json("string", "A@x.org"), Json("string", "b@x.org"),
      Json("boolean", "true"), Json("object", "{}"),
      JsonArray(<<Json("string", "a@x.org")>>),
      JsonArray(<<Json("string", "a@x.org"), Json("string", "b@x.org")>>) }

\* !email
falsy(email) ==
    \/ email.kind \in {"undefined", "null"}
    \/ email.kind = "string" /\ email.text = ""
    \/ email.kind = "boolean" /\ email.text = "false"
    \/ email.kind = "number" /\ email.text \in {"0.0", "NaN"}

\* stmt.run(email): the values it binds to the parameters of the statement.
\* better-sqlite3 takes an array argument as the list of the values and a
\* plain object as named parameters, of which the statement has none
bindParameters(email) ==
    IF email.kind = "array" THEN email.items
    ELSE IF email.kind = "object" THEN <<>>
    ELSE <<email>>

\* better-sqlite3 binds numbers, strings, bigints, buffers and null as a
\* value; for any other value stmt.run throws a TypeError
bindable(value) == value.kind \in {"string", "number", "bigint", "buffer", "null"}

\* stmt.run(email) reaches the INSERT: one value for the one parameter (else
\* a RangeError), and one that can be bound
binds(email) ==
    /\ Len(bindParameters(email)) = 1
    /\ bindable(bindParameters(email)[1])

\* the emails in the subscribers table
emailsOf(list) == { list[k].email : k \in 1..Len(list) }

\* an email column without the UNIQUE constraint: every insert goes in
insertSubscriberNoUnique(list, email, t) ==
    [unique |-> TRUE,
     rows |-> Append(list, [id |-> Len(list) + 1, email |-> email.text,
                            subscribed_at |-> t])]

\* INSERT INTO subscribers (email) VALUES (?): the UNIQUE column (compared
\* byte by byte) refuses an email that is already there
insertSubscriber(list, email, t) ==
    IF email.text \in emailsOf(list)
    THEN [unique |-> FALSE, rows |-> list]
    ELSE [unique |-> TRUE,
          rows |-> Append(list, [id |-> Len(list) + 1, email |-> email.text,
                                 subscribed_at |-> t])]

\* app.post('/api/subscribe'): the table it leaves and the response; an
\* error other than the UNIQUE violation (a value that cannot be bound, or
\* NULL in the NOT NULL column) goes to the last branch of the catch
subscribe(list, email, t) ==
    IF falsy(email)
    THEN [rows |-> list, res |-> Respond(400, <<"Email is required">>)]
    ELSE IF ~binds(email) \/ bindParameters(email)[1].kind = "null"
    THEN [rows |-> list, res |-> Respond(500, <<"Failed to subscribe">>)]
    ELSE LET ins == insertSubscriber(list, bindParameters(email)[1], t)
         IN  IF ins.unique
             THEN [rows |-> ins.rows, res |-> Respond(201, <<"Subscribed successfully">>)]
             ELSE [rows |-> list, res |-> Respond(400, <<"Already subscribed">>)]

\* POST /api/subscribe
SubscribeHandler(email) ==
    \E out \in {subscribe(subscribers, email, now)} :
        /\ out.res.status = 201 => Len(subscribers) < MaxSubscribers
        /\ subscribers' = out.rows
        /\ res' = out.res
        /\ last' = Done("subscribe", 0, NoFile, Undefined, NoPath, out.res.status = 500,
                        [email |-> email], FALSE, "handler")
        /\ UNCHANGED <<posts, seq, files, uploads, now, pending, allOk>>

Subscribe == \E email \in Emails : SubscribeHandler(email)

SubNext == Subscribe \/ Tick

\* the newsletter routes alone, under a running clock
SubSpec == Init /\ [][SubNext]_vars

----------------------------------------------------------------------------
(* The posts routes under a running clock *)

\* request bodies with two different post dates
TimedBodies == Bodies \cup
    { [title |-> "t", excerpt |-> "e", content |-> "c", post_date |-> 2] }

\* ORDER BY post_date DESC, created_at DESC allows row a right before row b
inOrder(a, b) ==
    \/ a.post_date > b.post_date
    \/ a.post_date = b.post_date /\ a.created_at >= b.created_at

\* SELECT * FROM posts ORDER BY post_date DESC, created_at DESC: the
\* results the statement may give; SQL leaves the order of rows with equal
\* sort keys open
selectAllPosts(table) ==
    LET n == Cardinality(DOMAIN table)
        orders == { f \in [1..n -> DOMAIN table] :
                      /\ \A k, l \in 1..n : f[k] = f[l] => k = l
                      /\ \A k \in 1..n : k < n => inOrder(table[f[k]], table[f[k + 1]]) }
    IN  { [k \in 1..n |-> table[f[k]]] : f \in orders }

\* GET /api/posts
ListHandler ==
    /\ \E rows \in selectAllPosts(posts) : res' = Respond(200, rows)
    /\ last' = Done("list", 0, NoFile, Undefined, NoPath, FALSE, NoBody, FALSE, "handler")
    /\ UNCHANGED <<posts, seq, files, uploads, now, pending, allOk, subscribers>>

List == ListHandler

\* one client that sends its next request when the last one is answered
TimedArrive ==
    /\ pending = EmptyBag
    /\ \E op \in {"create", "update"}, id \in {0} \cup Ids, file \in Uploads,
          tok \in 0..MaxUploads :
           Multer(op, id, file, tok)

TimedCreate == \E r \in Waiting, body \in TimedBodies : PostHandler(r, body)

TimedUpdate ==
    \E r \in Waiting, body \in TimedBodies, keep \in KeepValues, unlinkFails \in BOOLEAN :
        PutHandler(r, body, keep, unlinkFails)

TimedNext == TimedArrive \/ TimedCreate \/ TimedUpdate \/ Delete \/ Get \/ List \/ Tick

TimedSpec == Init /\ [][TimedNext]_vars

----------------------------------------------------------------------------
(* Properties *)

\* every image_path of a live row names a file of the uploads directory
NoDangling ==
    \A i \in DOMAIN posts :
        posts[i].image_path # NoPath =>
            existsSync(oldImagePath(posts[i].image_path), files)

\* every file is named by a live row or belongs to a request whose handler
\* has not run yet
Tracked == (files \ PendingFiles) \subseteq Referenced

\* the step is the handler of the waiting request r
Handles(r) == r \in Waiting /\ pending' = Take(r) /\ last'.op = r.op

\* C1: in every reachable state, also after requests that ended in an error,
\* each non-null image_path names a file that exists in the uploads directory.
C1_NoDanglingReference == NoDangling

\* C2: while every create, update and delete so far has answered 201 or 200,
\* each file in the uploads directory is referenced by a live row, or is the
\* upload of a request that is still waiting for its handler; with no request
\* waiting, no file is an orphan.
C2_NoOrphanAfterSuccess == allOk => Tracked

C2_Witness ==
    /\ allOk
    /\ pending = EmptyBag
    /\ last.op = "update" /\ last.file # NoFile /\ last.old # NoPath
    /\ res.status = 200
    /\ files # {}

\* C3: a non-throwing update or delete of a post that was live when the request
\* arrived, run from a state without dangling reference and without untracked
\* file, leaves no dangling reference and no orphaned artifact, whatever other
\* requests on the same id ran between its upload and its handler.
C3_SamePostSerialized ==
    [][ \A r \in Waiting :
          ( /\ Handles(r) /\ r.op = "update" /\ r.live
            /\ ~last'.threw
            /\ NoDangling /\ Tracked )
          => (NoDangling' /\ Tracked') ]_vars

\* C4: when no generated file name repeats, no two live rows have the same
\* non-null image_path.
C4_ExclusiveOwnership ==
    \A i, j \in DOMAIN posts :
        (i # j /\ posts[i].image_path # NoPath) =>
            posts[i].image_path # posts[j].image_path

C4_Witness ==
    \E i, j \in DOMAIN posts :
        i # j /\ posts[i].image_path # NoPath /\ posts[j].image_path # NoPath

\* C5: right after an update with a new file answered 200, the row's
\* image_path is the reference of the new file, the new file exists and the
\* file the row referenced before does not.
C5_ImageReplace ==
    (last.op = "update" /\ res.status = 200 /\ last.file # NoFile) =>
        /\ last.id \in DOMAIN posts
        /\ posts[last.id].image_path = imagePath(last.file)
        /\ existsSync(last.file, files)
        /\ last.old # NoPath => ~existsSync(oldImagePath(last.old), files)

\* C6: whenever the handler of an update with a new file removes a file from
\* the uploads directory, the new file is already on disk before that step
\* and still on disk after it.
C6_ReplaceOrdering ==
    [][ \A r \in Waiting :
          (Handles(r) /\ r.op = "update" /\ r.file # NoFile /\ files' # files)
          => (existsSync(r.file, files) /\ existsSync(r.file, files')) ]_vars

\* C7: right after an update without file and with keep_image = "false"
\* answered 200, the row's image_path is null and the file it referenced
\* before does not exist.
C7_ImageRemoval ==
    (last.op = "update" /\ res.status = 200 /\ last.file = NoFile /\ last.keep = "false") =>
        /\ last.id \in DOMAIN posts
        /\ posts[last.id].image_path = NoPath
        /\ last.old # NoPath => ~existsSync(oldImagePath(last.old), files)

C7_Witness ==
    /\ last.op = "update" /\ res.status = 200
    /\ last.file = NoFile /\ last.keep = "false" /\ last.old # NoPath
    /\ last.called /\ ~existsSync(oldImagePath(last.old), files)

\* C8: the handler of an update of an existing post without file and with
\* keep_image other than "false" leaves the row's image_path and the set of
\* files as they were.
C8_UnchangedDirective ==
    [][ \A r \in Waiting :
          ( /\ Handles(r) /\ r.op = "update" /\ r.file = NoFile
            /\ last'.keep # "false"
            /\ r.id \in DOMAIN posts )
          => /\ r.id \in DOMAIN posts'
             /\ posts'[r.id].image_path = posts[r.id].image_path
             /\ files' = files ]_vars

C8_Witness ==
    /\ last.op = "update" /\ res.status = 200
    /\ last.file = NoFile /\ last.keep # "false" /\ last.old # NoPath
    /\ last.id \in DOMAIN posts
    /\ posts[last.id].image_path = last.old

\* C9: right after a delete answered 200 of a post that had an image, the row
\* is gone, its file does not exist and a get of the id answers 404; and a get
\* of an id that was assigned and is no longer live answers 404.
C9_DeleteCascade ==
    /\ (last.op = "delete" /\ res.status = 200 /\ last.old # NoPath) =>
          /\ last.id \notin DOMAIN posts
          /\ ~existsSync(oldImagePath(last.old), files)
          /\ getPost(posts, last.id).status = 404
    /\ (last.op = "get" /\ last.id \in (1..seq) \ DOMAIN posts) => res.status = 404

C9_Witness ==
    /\ last.op = "delete" /\ res.status = 200 /\ last.old # NoPath
    /\ last.called /\ ~existsSync(oldImagePath(last.old), files)

\* C10: a delete whose unlink throws answers 500 and changes neither the rows
\* nor the files: the row and its file are both still there.
C10_DeleteFailSafe ==
    [][ (last'.op = "delete" /\ last'.threw) =>
          /\ res'.status = 500
          /\ posts' = posts
          /\ files' = files
          /\ last'.id \in DOMAIN posts'
          /\ posts'[last'.id].image_path = last'.old
          /\ existsSync(oldImagePath(last'.old), files') ]_vars

C10_Witness ==
    /\ last.op = "delete" /\ last.threw
    /\ last.id \in DOMAIN posts
    /\ posts[last.id].image_path # NoPath

\* C11: an update (replace or remove) whose unlink of the prior file throws
\* (fs.unlinkSync was called and the file is still there) answers 500 and
\* leaves every row as it was: all fields, image_path and updated_at.
C11_UpdateAbortsOnCleanupFailure ==
    [][ (last'.op = "update" /\ last'.called /\ last'.threw /\ files' = files) =>
          /\ res'.status = 500
          /\ posts' = posts ]_vars

C11_Witness ==
    /\ last.op = "update" /\ last.called /\ last.threw
    /\ res.status = 500
    /\ notNull(last.body)
    /\ last.old # NoPath /\ existsSync(oldImagePath(last.old), files)
    /\ last.id \in DOMAIN posts /\ posts[last.id].image_path = last.old

\* C12: a create whose image the upload step refuses (extension or media
\* type not allowed, or payload over the size limit) inserts no row: the
\* request ends with an error and the table and its id sequence are as before.
C12_CreateAllOrNothing ==
    [][ (last'.op = "create" /\ last'.stage = "multer" /\ last'.threw) =>
          /\ ~Ok(res'.status)
          /\ posts' = posts
          /\ seq' = seq ]_vars

C12_Witness ==
    /\ last.op = "create" /\ last.stage = "multer" /\ last.threw
    /\ ~Ok(res.status)
    /\ DOMAIN posts # {}

\* C17: when the image_path of the addressed row names a file that is not in
\* the uploads directory, a delete answers 200 and removes the row, and an
\* update with valid fields that replaces or removes the image answers 200 and
\* writes the row; neither touches the directory's other files.
C17_IdempotentArtifactDelete ==
    [][ ( /\ last'.op \in {"delete", "update"} /\ last'.stage = "handler"
          /\ last'.id \in DOMAIN posts
          /\ last'.old # NoPath
          /\ ~existsSync(oldImagePath(last'.old), files)
          /\ last'.op = "update" =>
                 /\ last'.file # NoFile \/ last'.keep = "false"
                 /\ notNull(last'.body) ) =>
          /\ res'.status = 200
          /\ files' = files
          /\ last'.op = "delete" => last'.id \notin DOMAIN posts'
          /\ last'.op = "update" =>
                 /\ posts'[last'.id].title = last'.body.title
                 /\ posts'[last'.id].image_path =
                        nextImagePath(last'.file, last'.keep, last'.old) ]_vars

C17_Witness ==
    /\ last.op = "delete" /\ last.stage = "handler"
    /\ last.old # NoPath /\ ~last.called
    /\ ~existsSync(oldImagePath(last.old), files)
    /\ res.status = 200
    /\ last.id \notin DOMAIN posts

\* C18: right after a create that answered 201, a get of the id it returned
\* answers 200 with the title, excerpt, content and post_date of the request
\* body and with the image_path of the stored upload (null without upload).
C18_RoundTrip ==
    (last.op = "create" /\ last.stage = "handler" /\ res.status = 201) =>
        LET got == getPost(posts, res.body[1].id)
        IN  /\ got.status = 200
            /\ got.body[1].id = res.body[1].id
            /\ got.body[1].title = last.body.title
            /\ got.body[1].excerpt = last.body.excerpt
            /\ got.body[1].content = last.body.content
            /\ got.body[1].post_date = last.body.post_date
            /\ got.body[1].image_path =
                   (IF last.file # NoFile THEN imagePath(last.file) ELSE NoPath)
            /\ got.body = res.body

C18_Witness ==
    /\ last.op = "create" /\ last.stage = "handler" /\ res.status = 201
    /\ last.file # NoFile
    /\ getPost(posts, res.body[1].id).status = 200
    /\ getPost(posts, res.body[1].id).body[1].image_path = imagePath(last.file)
    /\ getPost(posts, res.body[1].id).body[1].content = last.body.content

\* C19: once no request is waiting for its handler, also when some request
\* stored an upload and then ended in 404 or 500, every file in the uploads
\* directory is named by the image_path of a live row.
C19_NoOrphanAfterFailedRequests ==
    pending = EmptyBag => files \subseteq Referenced

\* the ids assigned so far whose row has been deleted
Deleted == (1..seq) \ DOMAIN posts

\* C20: an id whose row was deleted never has a row again, so a get of it
\* answers 404 after every later request; each new row gets an id above every
\* id assigned before; an update or delete of a deleted id answers 404 and
\* leaves all rows as they were.
C20_DeletedIsTerminal ==
    [][ /\ \A i \in Deleted : i \notin DOMAIN posts' /\ getPost(posts', i).status = 404
        /\ \A i \in DOMAIN posts' \ DOMAIN posts : \A j \in 1..seq : i > j
        /\ seq' >= seq
        /\ ( /\ last'.op \in {"update", "delete"} /\ last'.stage = "handler"
             /\ last'.id \in Deleted ) =>
               (res'.status = 404 /\ posts' = posts) ]_vars

C20_Witness ==
    /\ last.op = "create" /\ last.stage = "handler" /\ res.status = 201
    /\ \E i \in Deleted : i < last.id /\ getPost(posts, i).status = 404

\* the request just answered failed validation: the upload step refused its
\* image (type or size), or the handler of a create, or of an update of an
\* existing row, read a body without one of the required fields and no
\* unlink failure came first
ValidationFailed ==
    /\ last.op \in {"create", "update"}
    /\ \/ last.stage = "multer" /\ last.threw
       \/ /\ last.stage = "handler" /\ last.threw
          /\ ~notNull(last.body)
          /\ ~(last.called /\ existsSync(oldImagePath(last.old), files))

\* C15: a create or update with a required field missing, or with an image
\* of a disallowed type or size, is answered 400 and not 500.
C15_ValidationErrorsAre400 == ValidationFailed => res.status = 400

\* no two rows of the subscribers table have the same email
NoDuplicateEmail(list) ==
    \A k, l \in 1..Len(list) : list[k].email = list[l].email => k = l

\* the request sends an email: req.body.email is truthy and stmt.run binds
\* one string (the value itself, or the one element of an array)
SendsEmail(email) ==
    /\ ~falsy(email)
    /\ binds(email)
    /\ bindParameters(email)[1].kind = "string"

\* C14: no two subscriber rows ever have the same email; a subscribe of an
\* email that is not in the table answers 201 and adds one row with it, and
\* a subscribe of an email that is in the table answers 400 and leaves the
\* table as it was.
C14_SubscriberUniqueness ==
    [][ /\ NoDuplicateEmail(subscribers')
        /\ (last'.op = "subscribe" /\ SendsEmail(last'.body.email)) =>
              IF bindParameters(last'.body.email)[1].text \in emailsOf(subscribers)
              THEN /\ res'.status = 400
                   /\ subscribers' = subscribers
              ELSE /\ res'.status = 201
                   /\ Len(subscribers') = Len(subscribers) + 1
                   /\ SubSeq(subscribers', 1, Len(subscribers)) = subscribers
                   /\ subscribers'[Len(subscribers')].email =
                          bindParameters(last'.body.email)[1].text ]_vars

C14_Witness ==
    /\ last.op = "subscribe"
    /\ res = Respond(400, <<"Already subscribed">>)
    /\ SendsEmail(last.body.email)
    /\ last.body.email.kind = "array"
    /\ bindParameters(last.body.email)[1].text \in emailsOf(subscribers)
    /\ {"a@x.org", "A@x.org"} \subseteq emailsOf(subscribers)

\* C13: the list holds every live row once, in descending post_date, and
\* of two rows with the same post_date the one inserted later (the one with
\* the larger id) comes first, also when both were created in the same second.
C13_ListOrdering ==
    last.op = "list" =>
        /\ Len(res.body) = Cardinality(DOMAIN posts)
        /\ \A i \in DOMAIN posts : \E k \in 1..Len(res.body) : res.body[k] = posts[i]
        /\ \A k, l \in 1..Len(res.body) :
              k < l =>
                /\ res.body[k].post_date >= res.body[l].post_date
                /\ res.body[k].post_date = res.body[l].post_date =>
                      res.body[k].id > res.body[l].id

\* C16: an update of an existing row that answers 200 leaves the row's id
\* and created_at as they were and sets updated_at to the current time, which
\* is not before the old updated_at nor before created_at; an update that
\* answers anything else leaves every row as it was.
C16_TimestampsUnderUpdate ==
    [][ (last'.op = "update" /\ last'.stage = "handler") =>
          IF res'.status = 200
          THEN /\ last'.id \in DOMAIN posts
               /\ DOMAIN posts' = DOMAIN posts
               /\ posts'[last'.id].id = posts[last'.id].id
               /\ posts'[last'.id].created_at = posts[last'.id].created_at
               /\ posts'[last'.id].updated_at = now
               /\ posts'[last'.id].updated_at >= posts[last'.id].updated_at
               /\ posts'[last'.id].updated_at >= posts'[last'.id].created_at
               /\ \A i \in DOMAIN posts \ {last'.id} : posts'[i] = posts[i]
          ELSE posts' = posts ]_vars

C16_Witness ==
    /\ last.op = "update" /\ last.stage = "handler" /\ res.status = 200
    /\ posts[last.id].updated_at = now
    /\ posts[last.id].created_at < now
    /\ posts[last.id].post_date = 2

====
